---- MODULE Spec2Model ----
(***************************************************************************)
(* State-machine model of the temporary-inbox page (src/index.tsx): the    *)
(* module-level `state` object, the setInterval countdown, the two         *)
(* setTimeout mail arrivals and the DOM event listeners, all running to    *)
(* completion on one event loop whose clock is counted in whole seconds.   *)
(***************************************************************************)
EXTENDS Integers, Sequences, FiniteSets, TLC

\* ------------------------------------------------------------------ bounds
\* Last second of simulated time the clock is advanced to.
MaxTime == 604
\* Largest number of clicks on the extend button in one session.
MaxExtends == 1
\* Largest data-email-id a tampered item is clicked with.
MaxEmailId == 3
\* Most base-36 digits the random fraction is drawn with.
MaxDigits == 11
\* Largest number of copy feedbacks under way at once: clipboard writes not
\* yet settled plus label restores not yet fired.
MaxCopies == 2
\* Largest number of object URLs created.
MaxUrls == 4

\* ------------------------------------------------------- program constants
InitialTimeLeft == 600
ExtendSeconds == 600
TickSeconds == 1
FirstArrivalSeconds == 5
SecondArrivalSeconds == 15
TokenEnd == 12
TokenStart == 2
\* state.timerId = null; a live setInterval handle is a positive integer.
NullTimer == 0
IntervalHandle == 1
RestoreSeconds == 2
\* A URL state that holds null.
NullUrl == 0
\* The second of the session the late specification starts in.
LateSeconds == 599

VARIABLES
    state,          \* the module-level AppState object
    now,            \* seconds elapsed since init() ran
    nTicks,         \* how many times the setInterval callback has run
    pendingEmails,  \* ids whose setTimeout(addFakeEmail) has not fired yet
    nExtends,       \* how many times extendTimer has been invoked
    lastOp,         \* the handler that ran last
    mathRandom,     \* Math.random().toString(36) as init() reads it
    view,           \* the document: #root, its HTML, the listeners on it
    clipboardPending, \* writeText promises that have not settled yet
    restores,       \* pending 2 s label restores of the copy button, oldest first
    form,           \* the upload form's useState values
    requests,       \* conversions in flight, each with what its closure holds
    objectUrls,     \* every object URL created so far, in order of creation
    mounted         \* the form component is mounted

\* What the handlers of a running page never touch.
uploadForm == <<form, requests, objectUrls, mounted>>

offPage == <<mathRandom, uploadForm>>

\* The copy bookkeeping no render touches.
copying == <<clipboardPending>>

vars == <<state, now, nTicks, pendingEmails, nExtends, lastOp, view, restores,
          copying, offPage>>

\* ---------------------------------------------------------------- helpers
\* selectedEmail: Email | null is kept as a sequence of at most one Email.
NoEmail == << >>

domains == <<"web-mail.io", "tempinbox.co", "fastmail.run">>

subjects == <<"Welcome to Temp Mail!", "Your Account Verification",
              "Project Update", "Weekly Newsletter">>

senders == <<"support@example.com", "security@service.com",
             "jane.doe@workplace.com", "updates@blog.com">>

\* Math.random().toString(36) is "0." followed by base-36 digits; the model
\* carries it as the sequence of its characters.
Substring(s, from, to) ==
    LET lo == IF from < Len(s) THEN from ELSE Len(s)
        hi == IF to < Len(s) THEN to ELSE Len(s)
    IN  SubSeq(s, lo + 1, hi)

\* The digits of Number.prototype.toString(36).
Base36Chars ==
    {"0", "1", "2", "3", "4", "5", "6", "7", "8", "9", "a", "b", "c", "d",
     "e", "f", "g", "h", "i", "j", "k", "l", "m", "n", "o", "p", "q", "r",
     "s", "t", "u", "v", "w", "x", "y", "z"}

\* Values of Math.random().toString(36) and of Math.floor(Math.random() * 3)
\* a session is started with.
RandomDraws ==
    { << <<"0", ".", "k", "3", "f", "9", "x", "0", "q", "2", "z", "t", "b">>, 0 >>,
      << <<"0", ".", "i">>, 2 >> }

\* Variant of generateRandomEmail whose substring has no end index.
generateRandomEmailNoEnd(randomText, domainIndex) ==
    LET randomString == Substring(randomText, TokenStart, Len(randomText))
        domain == domains[domainIndex + 1]
    IN  randomString \o <<"@", domain>>

\* Digits the random fraction is drawn from.
SampleDigits == {"7", "q"}

\* `${randomString}@${domain}`: the characters of randomString, then "@",
\* then the domain (kept as one element).
generateRandomEmail(randomText, domainIndex) ==
    LET randomString == Substring(randomText, TokenStart, TokenEnd)
        domain == domains[domainIndex + 1]
    IN  randomString \o <<"@", domain>>

\* The state object literal.
InitialState ==
    [emailAddress       |-> << >>,
     timeLeft           |-> InitialTimeLeft,
     timerId            |-> NullTimer,
     emails             |-> << >>,
     selectedEmail      |-> NoEmail,
     isPremiumModalOpen |-> FALSE]

\* Variant of setState that replaces the object by the patch instead of
\* merging the patch into it: fields the patch lacks fall back to the literal.
setStateReplace(st, newState) ==
    [k \in DOMAIN st |->
        IF k \in DOMAIN newState THEN newState[k] ELSE InitialState[k]]

\* Object.assign(state, newState); render() derives the view from the result.
setState(st, newState) ==
    [k \in DOMAIN st |-> IF k \in DOMAIN newState THEN newState[k] ELSE st[k]]

\* Variants of the interval callback with one slip each.
timerCallbackNoStop(st) == setState(st, [timeLeft |-> st.timeLeft - 1])

timerCallbackEarlyStop(st) ==
    IF st.timeLeft <= 1
    THEN setState(st, [timerId |-> NullTimer])
    ELSE setState(st, [timeLeft |-> st.timeLeft - 1])

timerCallbackNoClear(st) ==
    IF st.timeLeft <= 0
    THEN st
    ELSE setState(st, [timeLeft |-> st.timeLeft - 1])

timerCallbackIncrement(st) ==
    IF st.timeLeft <= 0
    THEN setState(st, [timerId |-> NullTimer])
    ELSE setState(st, [timeLeft |-> st.timeLeft + 1])

\* The setInterval callback of startTimer.
timerCallback(st) ==
    IF st.timeLeft <= 0
    THEN setState(st, [timerId |-> NullTimer])
    ELSE setState(st, [timeLeft |-> st.timeLeft - 1])

startTimer(st) == setState(st, [timerId |-> IntervalHandle])

\* Variants of extendTimer with one slip each.
extendTimerReset(st) ==
    IF st.timeLeft > 0
    THEN setState(st, [timeLeft |-> ExtendSeconds])
    ELSE st

extendTimerNoGuard(st) ==
    setState(st, [timeLeft |-> st.timeLeft + ExtendSeconds])

extendTimerGuardGE(st) ==
    IF st.timeLeft >= 0
    THEN setState(st, [timeLeft |-> st.timeLeft + ExtendSeconds])
    ELSE st

extendTimer(st) ==
    IF st.timeLeft > 0
    THEN setState(st, [timeLeft |-> st.timeLeft + ExtendSeconds])
    ELSE st

\* Variants of addFakeEmail: the new message appended instead of prepended,
\* and the list replaced instead of extended.
addFakeEmailAppend(st, id, date) ==
    LET newEmail ==
            [id |-> id, from |-> senders[id], subject |-> subjects[id],
             body |-> "This is a simulated email body for message #"
                      \o ToString(id),
             received |-> date]
    IN  setState(st, [emails |-> st.emails \o <<newEmail>>])

addFakeEmailReplace(st, id, date) ==
    LET newEmail ==
            [id |-> id, from |-> senders[id], subject |-> subjects[id],
             body |-> "This is a simulated email body for message #"
                      \o ToString(id),
             received |-> date]
    IN  setState(st, [emails |-> <<newEmail>>])

addFakeEmail(st, id, date) ==
    LET newEmail ==
            [id       |-> id,
             from     |-> IF id \in DOMAIN senders
                          THEN senders[id] ELSE "no-reply@system.com",
             subject  |-> IF id \in DOMAIN subjects
                          THEN subjects[id]
                          ELSE "Important Message #" \o ToString(id),
             body     |-> "This is a simulated email body for message #"
                          \o ToString(id),
             received |-> date]
    IN  setState(st, [emails |-> <<newEmail>> \o st.emails])

\* Variant of the arrival delays with the two timeouts swapped.
ArrivalDelaySwapped(id) ==
    IF id = 1 THEN SecondArrivalSeconds ELSE FirstArrivalSeconds

\* setTimeout delays of simulateIncomingEmails, in seconds.
ArrivalDelay(id) ==
    IF id = 1 THEN FirstArrivalSeconds ELSE SecondArrivalSeconds

\* Variant of find that takes emailId for a position in the list.
FindByIndex(emails, emailId) ==
    IF emailId + 1 \in DOMAIN emails THEN <<emails[emailId + 1]>> ELSE NoEmail

\* state.emails.find(e => e.id === emailId): the first match, or undefined.
Find(emails, emailId) ==
    LET hits == {i \in DOMAIN emails : emails[i].id = emailId}
    IN  IF hits = {} THEN NoEmail
        ELSE <<emails[CHOOSE i \in hits : \A j \in hits : i <= j]>>

\* The click / keydown listener of an .email-item.
selectEmail(st, emailId) ==
    LET selectedEmail == Find(st.emails, emailId)
    IN  IF selectedEmail # NoEmail
        THEN setState(st, [selectedEmail |-> selectedEmail])
        ELSE st

\* ------------------------------------------------------------------- view
\* render() shows the inbox panel, with the extend button and one .email-item
\* per message, exactly when no message is selected.
InboxPanelShown(st) == st.selectedEmail = NoEmail

\* The extend button carries `disabled` once the countdown has run out; a
\* disabled button swallows user clicks but keeps its listener.
ExtendDisabled(st) == st.timeLeft <= 0

\* data-email-id of the rendered .email-item elements.
EmailItems(st) == {st.emails[i].id : i \in DOMAIN st.emails}

ModalShown(st) == st.isPremiumModalOpen

\* n.toString().padStart(2, '0')
PadStart2(n) == IF n < 10 THEN "0" \o ToString(n) ELSE ToString(n)

formatTime(seconds) ==
    PadStart2(seconds \div 60) \o ":" \o PadStart2(seconds % 60)

\* What the HTML string of render() shows of a state: the header's address,
\* the inbox panel (timer text, extend button, items) or the email view, and
\* the modal.
Html(st) ==
    [address        |-> IF st.emailAddress = << >>
                        THEN <<"Generating...">> ELSE st.emailAddress,
     panel          |-> IF InboxPanelShown(st) THEN "inbox" ELSE "email",
     timer          |-> IF ~InboxPanelShown(st) THEN ""
                        ELSE IF st.timeLeft > 0
                             THEN formatTime(st.timeLeft) ELSE "Expired",
     extendDisabled |-> InboxPanelShown(st) /\ ExtendDisabled(st),
     items          |-> IF InboxPanelShown(st) THEN st.emails ELSE << >>,
     email          |-> st.selectedEmail,
     modal          |-> ModalShown(st)]

\* The element an .email-item listener hangs on, per event type.
ItemHook(emailId, type) == "email-item-" \o ToString(emailId) \o "/" \o type

\* Variant of the rendered elements with the inbox panel always present.
ElementsBothPanels(st) ==
    {"copy-button", "upgrade-button", "extend-timer-button"}
    \cup {ItemHook(id, type) : id \in EmailItems(st), type \in {"click", "keydown"}}
    \cup (IF InboxPanelShown(st) THEN {} ELSE {"back-to-inbox", "forward-email"})
    \cup (IF ModalShown(st)
          THEN {"close-modal-button", "stripe-checkout-button", "modal-overlay"}
          ELSE {})

\* The elements of the rendered HTML that attachEventListeners looks up, one
\* name per element and event type.
Elements(st) ==
    {"copy-button", "upgrade-button"}
    \cup (IF InboxPanelShown(st)
          THEN {"extend-timer-button"}
               \cup {ItemHook(id, type) :
                        id \in EmailItems(st), type \in {"click", "keydown"}}
          ELSE {"back-to-inbox", "forward-email"})
    \cup (IF ModalShown(st)
          THEN {"close-modal-button", "stripe-checkout-button", "modal-overlay"}
          ELSE {})

\* addEventListener once on every element found.
attachEventListeners(listeners) ==
    [h \in DOMAIN listeners |-> listeners[h] + 1]

\* Variants of render: one that returns before touching the document, one
\* that patches the elements in place so that their listeners survive.
renderNothing(st, v) == v

renderKeepListeners(st, v) ==
    IF ~v.root THEN v
    ELSE [root      |-> TRUE,
          html      |-> Html(st),
          copyLabel |-> "Copy",
          listeners |-> attachEventListeners(
                            [h \in Elements(st) |->
                                IF h \in DOMAIN v.listeners
                                THEN v.listeners[h] ELSE 0])]

\* render(): nothing without #root; else root.innerHTML is replaced, which
\* drops every old element with its listeners and its patched label, and
\* attachEventListeners binds the new elements.
render(st, v) ==
    IF ~v.root THEN v
    ELSE [root      |-> TRUE,
          html      |-> Html(st),
          copyLabel |-> "Copy",
          listeners |-> attachEventListeners([h \in Elements(st) |-> 0])]

\* The document before the first render: an empty #root.
Unrendered ==
    [root      |-> TRUE,
     html      |-> [address |-> << >>, panel |-> "", timer |-> "",
                    extendDisabled |-> FALSE, items |-> << >>,
                    email |-> NoEmail, modal |-> FALSE],
     copyLabel |-> "",
     listeners |-> [h \in {} |-> 0]]

\* A listener is attached to the element.
Bound(hook) == hook \in DOMAIN view.listeners /\ view.listeners[hook] > 0

\* What the listener that attachEventListeners puts on an element does to
\* the state once its own tests on the event (key, target) have passed;
\* emailId is the item's data-email-id, 0 for the other elements.
Listener(hook, emailId, st) ==
    CASE hook = "extend-timer-button" -> extendTimer(st)
      [] hook = "upgrade-button"      -> setState(st, [isPremiumModalOpen |-> TRUE])
      [] hook = "back-to-inbox"       -> setState(st, [selectedEmail |-> NoEmail])
      [] hook \in {"close-modal-button", "modal-overlay"}
                                      -> setState(st, [isPremiumModalOpen |-> FALSE])
      [] hook \in {ItemHook(emailId, "click"), ItemHook(emailId, "keydown")}
                                      -> selectEmail(st, emailId)
      [] OTHER                        -> st

\* Dispatching an event runs every listener attached to the element.
RECURSIVE Dispatch(_, _, _, _)
Dispatch(hook, emailId, n, st) ==
    IF n = 0 THEN st
    ELSE Dispatch(hook, emailId, n - 1, Listener(hook, emailId, st))

Fire(hook, emailId, st) == Dispatch(hook, emailId, view.listeners[hook], st)

\* A render replaces the copy button, so the pending label restores keep
\* pointing at an element that is no longer in the document.
Detached(rs) == [i \in DOMAIN rs |-> [rs[i] EXCEPT !.attached = FALSE]]

\* The document after a handler: re-rendered when the handler called setState.
Present(didSetState) ==
    IF didSetState /\ view.root
    THEN view' = render(state', view) /\ restores' = Detached(restores)
    ELSE UNCHANGED <<view, restores>>

NoFile == << >>
NoError == << >>

\* The useState initial values.
InitialForm ==
    [selectedFile     |-> NoFile,
     previewUrl       |-> NullUrl,
     stippledImageUrl |-> NullUrl,
     isLoading        |-> FALSE,
     error            |-> NoError]

\* The form as mounted; on the inbox page it is never mounted and stays so.
UploadIdle ==
    /\ form = InitialForm
    /\ requests = {}
    /\ objectUrls = << >>
    /\ mounted = TRUE

\* ------------------------------------------------------------------- init
\* The state once init() has returned: address generated, interval started,
\* both arrival timeouts pending, the page rendered.
Init ==
    /\ \E draw \in RandomDraws :
          /\ mathRandom = draw[1]
          /\ state = startTimer(setState(InitialState,
                        [emailAddress |-> generateRandomEmail(draw[1], draw[2])]))
    /\ now = 0
    /\ nTicks = 0
    /\ pendingEmails = {1, 2}
    /\ nExtends = 0
    /\ lastOp = "init"
    /\ view = render(state, Unrendered)
    /\ clipboardPending = 0
    /\ restores = << >>
    /\ UploadIdle

\* ---------------------------------------------------------------- actions
\* The k-th run of the interval callback is due k seconds after init.
TickDue == state.timerId # NullTimer /\ (nTicks + 1) * TickSeconds <= now

ArrivalDue(id) == id \in pendingEmails /\ ArrivalDelay(id) <= now

\* The oldest pending label restore has waited its 2 seconds.
RestoreDue == restores # << >> /\ Head(restores).due <= now

\* The event loop lets the clock move on only when no timer is due.
Advance ==
    /\ now < MaxTime
    /\ ~TickDue
    /\ \A id \in pendingEmails : ~ArrivalDue(id)
    /\ ~RestoreDue
    /\ now' = now + 1
    /\ lastOp' = "advance"
    /\ UNCHANGED <<state, nTicks, pendingEmails, nExtends, view, restores, copying, offPage>>

TimerTick ==
    /\ TickDue
    /\ state' = timerCallback(state)
    /\ Present(TRUE)
    /\ nTicks' = nTicks + 1
    /\ lastOp' = "tick"
    /\ UNCHANGED <<now, pendingEmails, nExtends, copying, offPage>>

Arrival(id) ==
    /\ ArrivalDue(id)
    /\ state' = addFakeEmail(state, id, now)
    /\ Present(TRUE)
    /\ pendingEmails' = pendingEmails \ {id}
    /\ lastOp' = "arrival"
    /\ UNCHANGED <<now, nTicks, nExtends, copying, offPage>>

\* A click on #extend-timer-button; `trusted` tells a user click from a
\* dispatched one, which a disabled button does not swallow.
ClickExtendTimer(trusted) ==
    /\ Bound("extend-timer-button")
    /\ trusted => ~view.html.extendDisabled
    /\ nExtends < MaxExtends
    /\ state' = Fire("extend-timer-button", 0, state)
    /\ Present(state.timeLeft > 0)
    /\ nExtends' = nExtends + view.listeners["extend-timer-button"]
    /\ lastOp' = "extend"
    /\ UNCHANGED <<now, nTicks, pendingEmails, copying, offPage>>

\* The name a click on the item with data-email-id = emailId leaves in lastOp.
SelectOp(emailId) == "select" \o ToString(emailId)

ClickEmailItem(emailId) ==
    /\ Bound(ItemHook(emailId, "click"))
    /\ state' = Fire(ItemHook(emailId, "click"), emailId, state)
    /\ Present(Find(state.emails, emailId) # NoEmail)
    /\ lastOp' = SelectOp(emailId)
    /\ UNCHANGED <<now, nTicks, pendingEmails, nExtends, copying, offPage>>

\* A click on an .email-item whose data-email-id no longer is what render()
\* wrote (removed: parseInt('0'); edited: any number): a stale reference.
ClickTamperedItem(attr) ==
    /\ \E emailId \in EmailItems(state) : Bound(ItemHook(emailId, "click"))
    /\ state' = selectEmail(state, attr)
    /\ Present(Find(state.emails, attr) # NoEmail)
    /\ lastOp' = SelectOp(attr)
    /\ UNCHANGED <<now, nTicks, pendingEmails, nExtends, copying, offPage>>

KeydownEmailItem(emailId, key) ==
    /\ Bound(ItemHook(emailId, "keydown"))
    /\ state' = IF key \in {"Enter", " "}
                THEN Fire(ItemHook(emailId, "keydown"), emailId, state)
                ELSE state
    /\ Present(key \in {"Enter", " "} /\ Find(state.emails, emailId) # NoEmail)
    /\ lastOp' = "keydown"
    /\ UNCHANGED <<now, nTicks, pendingEmails, nExtends, copying, offPage>>

ClickBackToInbox ==
    /\ Bound("back-to-inbox")
    /\ state' = Fire("back-to-inbox", 0, state)
    /\ Present(TRUE)
    /\ lastOp' = "back"
    /\ UNCHANGED <<now, nTicks, pendingEmails, nExtends, copying, offPage>>

\* alert('Forwarding functionality requires a backend.')
ClickForward ==
    /\ Bound("forward-email")
    /\ lastOp' = "forward"
    /\ UNCHANGED <<state, now, nTicks, pendingEmails, nExtends, view, restores, copying, offPage>>

ClickUpgrade ==
    /\ Bound("upgrade-button")
    /\ state' = Fire("upgrade-button", 0, state)
    /\ Present(TRUE)
    /\ lastOp' = "openModal"
    /\ UNCHANGED <<now, nTicks, pendingEmails, nExtends, copying, offPage>>

ClickCloseModal ==
    /\ Bound("close-modal-button")
    /\ state' = Fire("close-modal-button", 0, state)
    /\ Present(TRUE)
    /\ lastOp' = "closeModal"
    /\ UNCHANGED <<now, nTicks, pendingEmails, nExtends, copying, offPage>>

\* alert('Redirecting to Stripe... (simulation)')
ClickStripe ==
    /\ Bound("stripe-checkout-button")
    /\ lastOp' = "stripe"
    /\ UNCHANGED <<state, now, nTicks, pendingEmails, nExtends, view, restores, copying, offPage>>

\* Variant of the overlay listener without the e.target test.
ClickOverlayAnyTarget(targetIsOverlay) ==
    /\ Bound("modal-overlay")
    /\ state' = setState(state, [isPremiumModalOpen |-> FALSE])
    /\ Present(TRUE)
    /\ lastOp' = IF targetIsOverlay THEN "overlay" ELSE "modalContent"
    /\ UNCHANGED <<now, nTicks, pendingEmails, nExtends, copying, offPage>>

\* A click inside .modal-overlay; targetIsOverlay is e.target === e.currentTarget
\* (the overlay root itself, not the modal content inside it).
ClickOverlay(targetIsOverlay) ==
    /\ Bound("modal-overlay")
    /\ state' = IF targetIsOverlay
                THEN Fire("modal-overlay", 0, state)
                ELSE state
    /\ Present(targetIsOverlay)
    /\ lastOp' = IF targetIsOverlay THEN "overlay" ELSE "modalContent"
    /\ UNCHANGED <<now, nTicks, pendingEmails, nExtends, copying, offPage>>

UserNext ==
    \/ \E trusted \in BOOLEAN : ClickExtendTimer(trusted)
    \/ \E emailId \in {1, 2} : ClickEmailItem(emailId)
    \/ \E emailId \in {1, 2}, key \in {"Enter", " ", "Tab"} :
          KeydownEmailItem(emailId, key)
    \/ ClickBackToInbox
    \/ ClickForward
    \/ ClickUpgrade
    \/ ClickCloseModal
    \/ ClickStripe
    \/ \E targetIsOverlay \in BOOLEAN : ClickOverlay(targetIsOverlay)

Next ==
    \/ Advance
    \/ TimerTick
    \/ \E id \in {1, 2} : Arrival(id)
    \/ UserNext

Spec == Init /\ [][Next]_vars

\* ------------------------------------------------------ address generation
\* The module has been evaluated and init() is about to run: the state object
\* still is its literal, no timer is scheduled, nothing is rendered, and the
\* random source is about to yield the text of Math.random().toString(36),
\* "0" for 0 and "0." plus base-36 digits otherwise.
InitAddress ==
    /\ state = InitialState
    /\ now = 0
    /\ nTicks = 0
    /\ pendingEmails = {}
    /\ nExtends = 0
    /\ lastOp = "load"
    /\ mathRandom = <<"0">>
    /\ view = Unrendered
    /\ clipboardPending = 0
    /\ restores = << >>
    /\ UploadIdle

\* The random source fixes one more digit of the fraction.
DrawDigit(c) ==
    /\ state.emailAddress = << >>
    /\ Len(mathRandom) < 2 + MaxDigits
    /\ mathRandom' = IF Len(mathRandom) = 1
                     THEN mathRandom \o <<".", c>>
                     ELSE Append(mathRandom, c)
    /\ lastOp' = "random"
    /\ UNCHANGED <<state, now, nTicks, pendingEmails, nExtends, view, restores,
                   copying, uploadForm>>

\* init(): setState({ emailAddress: generateRandomEmail() }).
GenerateAddress(domainIndex) ==
    /\ state.emailAddress = << >>
    /\ state' = setState(state,
                    [emailAddress |-> generateRandomEmail(mathRandom, domainIndex)])
    /\ Present(TRUE)
    /\ lastOp' = "generate"
    /\ UNCHANGED <<now, nTicks, pendingEmails, nExtends, copying, offPage>>

NextAddress ==
    \/ \E c \in SampleDigits : DrawDigit(c)
    \/ \E domainIndex \in 0 .. Len(domains) - 1 : GenerateAddress(domainIndex)

SpecAddress == InitAddress /\ [][NextAddress]_vars

\* ---------------------------------------------------------- stale clicks
\* The page with an environment that also clicks items whose data-email-id
\* it has removed or edited.
NextStale ==
    \/ Next
    \/ \E attr \in 0 .. MaxEmailId : ClickTamperedItem(attr)

SpecStale == Init /\ [][NextStale]_vars

\* -------------------------------------------------------------- teardown
\* The page's view is torn down: #root leaves the document, and with it every
\* element and listener. The code has no teardown of its own; render() only
\* returns early when it finds no #root.
RemoveRoot ==
    /\ view.root
    /\ view' = [Unrendered EXCEPT !.root = FALSE]
    /\ restores' = Detached(restores)
    /\ lastOp' = "teardown"
    /\ UNCHANGED <<state, now, nTicks, pendingEmails, nExtends, copying, offPage>>

NextTeardown ==
    \/ Next
    \/ RemoveRoot

SpecTeardown == Init /\ [][NextTeardown]_vars

\* ------------------------------------------------------------ copy button
\* A click on #copy-button: copyToClipboard starts navigator.clipboard.writeText.
ClickCopy ==
    /\ Bound("copy-button")
    /\ clipboardPending + Len(restores) < MaxCopies
    /\ clipboardPending' = clipboardPending + view.listeners["copy-button"]
    /\ lastOp' = "copy"
    /\ UNCHANGED <<state, now, nTicks, pendingEmails, nExtends, view, restores, offPage>>

\* Variant of the then-callback that always restores the plain label.
copiedFixedOriginal(v, rs, time) ==
    IF ~v.root THEN <<v, rs>>
    ELSE << [v EXCEPT !.copyLabel = "Copied!"],
            Append(rs, [attached     |-> TRUE,
                        originalText |-> "Copy",
                        due          |-> time + RestoreSeconds]) >>

\* The then-callback of writeText: with a #copy-button in the document, keep
\* its innerHTML as originalText, show "Copied!" and set the 2 s timeout that
\* writes originalText back into that element.
copied(v, rs, time) ==
    IF ~v.root THEN <<v, rs>>
    ELSE << [v EXCEPT !.copyLabel = "Copied!"],
            Append(rs, [attached     |-> TRUE,
                        originalText |-> v.copyLabel,
                        due          |-> time + RestoreSeconds]) >>

ClipboardResolved ==
    /\ clipboardPending > 0
    /\ clipboardPending' = clipboardPending - 1
    /\ view' = copied(view, restores, now)[1]
    /\ restores' = copied(view, restores, now)[2]
    /\ lastOp' = "copied"
    /\ UNCHANGED <<state, now, nTicks, pendingEmails, nExtends, offPage>>

\* writeText rejects (no permission, document not focused): no callback runs.
ClipboardRejected ==
    /\ clipboardPending > 0
    /\ clipboardPending' = clipboardPending - 1
    /\ lastOp' = "copyFailed"
    /\ UNCHANGED <<state, now, nTicks, pendingEmails, nExtends, view, restores, offPage>>

\* The 2 s timeout: copyButton.innerHTML = originalText, on the element the
\* callback found, whether or not it still is in the document.
RestoreLabel ==
    /\ RestoreDue
    /\ restores' = Tail(restores)
    /\ view' = IF Head(restores).attached
               THEN [view EXCEPT !.copyLabel = Head(restores).originalText]
               ELSE view
    /\ lastOp' = "restore"
    /\ UNCHANGED <<state, now, nTicks, pendingEmails, nExtends, copying, offPage>>

CopyNext ==
    \/ ClickCopy
    \/ ClipboardResolved
    \/ ClipboardRejected
    \/ RestoreLabel

\* A session in its last second, never extended, both messages delivered, the
\* list shown: the state Spec is in after LateSeconds ticks and no click.
InitLate ==
    /\ \E draw \in RandomDraws :
          /\ mathRandom = draw[1]
          /\ state =
               [addFakeEmail(
                  addFakeEmail(
                    startTimer(setState(InitialState,
                        [emailAddress |-> generateRandomEmail(draw[1], draw[2])])),
                    1, FirstArrivalSeconds),
                  2, SecondArrivalSeconds)
                EXCEPT !.timeLeft = InitialTimeLeft - LateSeconds]
    /\ now = LateSeconds
    /\ nTicks = LateSeconds
    /\ pendingEmails = {}
    /\ nExtends = 0
    /\ lastOp = "tick"
    /\ view = render(state, Unrendered)
    /\ clipboardPending = 0
    /\ restores = << >>
    /\ UploadIdle

NextLate ==
    \/ Advance
    \/ TimerTick
    \/ UserNext
    \/ CopyNext

SpecLate == InitLate /\ [][NextLate]_vars

\* ------------------------------------------------------------ upload form
\* The files the user can pick in the file input, by name and MIME type
\* (type and subtype).
Files ==
    { [name |-> "a.png",     type |-> <<"image", "png">>],
      [name |-> "b.jpg",     type |-> <<"image", "jpeg">>],
      [name |-> "notes.txt", type |-> <<"text", "plain">>] }

\* file.type.startsWith('image/')
IsImageType(type) == type[1] = "image"

startsWithImage(file) == IsImageType(file.type)

\* URL.createObjectURL: a new URL, named by its position in the registry,
\* for a picked file or for the stippled blob made from a file.
createObjectURL(urls, kind, file) ==
    Append(urls, [kind |-> kind, file |-> file, revoked |-> FALSE])

\* URL.revokeObjectURL
revokeObjectURL(urls, url) == [urls EXCEPT ![url].revoked = TRUE]

\* Variant of handleFileSelect that drops the selection on a file of the
\* wrong type.
handleFileSelectDropOnInvalid(picked, fm, urls) ==
    LET cleared == [fm EXCEPT !.error = NoError, !.stippledImageUrl = NullUrl]
    IN  IF picked = NoFile
        THEN [form |-> [cleared EXCEPT !.selectedFile = NoFile,
                                       !.previewUrl = NullUrl],
              urls |-> urls]
        ELSE IF ~startsWithImage(picked[1])
        THEN [form |-> [cleared EXCEPT
                           !.error = <<"Please select a valid image file">>,
                           !.selectedFile = NoFile,
                           !.previewUrl = NullUrl],
              urls |-> urls]
        ELSE LET revoked == IF fm.previewUrl # NullUrl
                            THEN revokeObjectURL(urls, fm.previewUrl) ELSE urls
                 created == createObjectURL(revoked, "preview", picked[1])
             IN  [form |-> [cleared EXCEPT !.selectedFile = picked,
                                           !.previewUrl = Len(created)],
                  urls |-> created]

\* handleFileSelect: picked is event.target.files[0], none after a cancelled
\* dialog. The handler reads previewUrl as of the render it was created in,
\* which is the current one: React re-renders before the next event.
handleFileSelect(picked, fm, urls) ==
    LET cleared == [fm EXCEPT !.error = NoError, !.stippledImageUrl = NullUrl]
    IN  IF picked = NoFile
        THEN [form |-> [cleared EXCEPT !.selectedFile = NoFile,
                                       !.previewUrl = NullUrl],
              urls |-> urls]
        ELSE IF ~startsWithImage(picked[1])
        THEN [form |-> [cleared EXCEPT
                           !.error = <<"Please select a valid image file">>],
              urls |-> urls]
        ELSE LET revoked == IF fm.previewUrl # NullUrl
                            THEN revokeObjectURL(urls, fm.previewUrl) ELSE urls
                 created == createObjectURL(revoked, "preview", picked[1])
             IN  [form |-> [cleared EXCEPT !.selectedFile = picked,
                                           !.previewUrl = Len(created)],
                  urls |-> created]

\* handleConvertToStipple up to its first await: the request carries what the
\* closure of the clicked render holds, the file and the result URL.
startConversion(fm, reqs) ==
    IF fm.selectedFile = NoFile
    THEN [form     |-> [fm EXCEPT !.error = <<"Please select an image first">>],
          requests |-> reqs]
    ELSE [form     |-> [fm EXCEPT !.isLoading = TRUE, !.error = NoError],
          requests |-> reqs \cup {[file             |-> fm.selectedFile[1],
                                   stippledImageUrl |-> fm.stippledImageUrl]}]

\* Variant of the continuation without the finally block: isLoading is reset
\* on the successful path only.
finishConversionNoFinally(req, outcome, fm, urls) ==
    IF outcome = "ok"
    THEN LET revoked == IF req.stippledImageUrl # NullUrl
                        THEN revokeObjectURL(urls, req.stippledImageUrl)
                        ELSE urls
             created == createObjectURL(revoked, "stipple", req.file)
         IN  [form |-> [fm EXCEPT !.stippledImageUrl = Len(created),
                                  !.isLoading = FALSE],
              urls |-> created]
    ELSE [form |-> [fm EXCEPT
                      !.error = IF outcome = "status"
                                THEN <<"API request failed">>
                                ELSE <<"Failed to fetch">>],
          urls |-> urls]

\* handleConvertToStipple after its awaits: the response is ok and its blob
\* becomes the displayed result, or the request has failed (HTTP status, or
\* fetch rejected) and the message is shown; finally isLoading is reset.
finishConversion(req, outcome, fm, urls) ==
    IF outcome = "ok"
    THEN LET revoked == IF req.stippledImageUrl # NullUrl
                        THEN revokeObjectURL(urls, req.stippledImageUrl)
                        ELSE urls
             created == createObjectURL(revoked, "stipple", req.file)
         IN  [form |-> [fm EXCEPT !.stippledImageUrl = Len(created),
                                  !.isLoading = FALSE],
              urls |-> created]
    ELSE [form |-> [fm EXCEPT
                      !.error = IF outcome = "status"
                                THEN <<"API request failed">>
                                ELSE <<"Failed to fetch">>,
                      !.isLoading = FALSE],
          urls |-> urls]

\* The inbox page is not part of the upload form's document.
InitUpload ==
    /\ state = InitialState
    /\ now = 0
    /\ nTicks = 0
    /\ pendingEmails = {}
    /\ nExtends = 0
    /\ lastOp = "mount"
    /\ mathRandom = <<"0">>
    /\ view = Unrendered
    /\ clipboardPending = 0
    /\ restores = << >>
    /\ UploadIdle

page == <<state, now, nTicks, pendingEmails, nExtends, view, restores, copying,
          mathRandom>>

\* The name a change of the file input to `picked` leaves in lastOp.
SelectFileOp(picked) ==
    IF picked = NoFile THEN "select nothing" ELSE "select " \o picked[1].name

\* onChange of the file input, which stays enabled during a conversion.
ChangeFile(picked) ==
    /\ mounted
    /\ picked # NoFile /\ startsWithImage(picked[1]) => Len(objectUrls) < MaxUrls
    /\ form' = handleFileSelect(picked, form, objectUrls).form
    /\ objectUrls' = handleFileSelect(picked, form, objectUrls).urls
    /\ lastOp' = SelectFileOp(picked)
    /\ UNCHANGED <<requests, mounted, page>>

\* A click on the convert button, rendered while a file is selected and
\* disabled while isLoading.
ClickConvert ==
    /\ mounted
    /\ form.selectedFile # NoFile
    /\ ~form.isLoading
    /\ form' = startConversion(form, requests).form
    /\ requests' = startConversion(form, requests).requests
    /\ lastOp' = "convert"
    /\ UNCHANGED <<objectUrls, mounted, page>>

\* The request settles and the rest of handleConvertToStipple runs; the
\* setters of an unmounted component do nothing, the URL calls still happen.
ConversionSettled(outcome) ==
    /\ outcome = "ok" => Len(objectUrls) < MaxUrls
    /\ \E req \in requests :
          /\ form' = IF mounted
                      THEN finishConversion(req, outcome, form, objectUrls).form
                      ELSE form
          /\ objectUrls' = finishConversion(req, outcome, form, objectUrls).urls
          /\ requests' = requests \ {req}
    /\ lastOp' = IF outcome = "ok" THEN "converted" ELSE "convertFailed"
    /\ UNCHANGED <<mounted, page>>

\* A click on the download button, rendered while a result is displayed.
ClickDownload ==
    /\ mounted
    /\ form.stippledImageUrl # NullUrl
    /\ lastOp' = "download"
    /\ UNCHANGED <<form, requests, objectUrls, mounted, page>>

NextUpload ==
    \/ \E picked \in {NoFile} \cup {<<f>> : f \in Files} : ChangeFile(picked)
    \/ ClickConvert
    \/ \E outcome \in {"ok", "status", "network"} : ConversionSettled(outcome)
    \/ ClickDownload

SpecUpload == InitUpload /\ [][NextUpload]_vars

\* The form with a network that settles every request: fetch resolves with a
\* response or rejects, at the latest when the browser gives up on the
\* connection, and the continuation then runs as a microtask.
SpecUploadFair ==
    SpecUpload /\ WF_vars(\E outcome \in {"ok", "status", "network"} :
                              ConversionSettled(outcome))

\* ------------------------------------------------------- handler callers
\* handleConvertToStipple runs while no file is selected. The form renders no
\* convert button then, so this is a caller that holds the handler itself;
\* the handler's first test is written for it.
CallConvertWithoutFile ==
    /\ mounted
    /\ form.selectedFile = NoFile
    /\ form' = startConversion(form, requests).form
    /\ requests' = startConversion(form, requests).requests
    /\ lastOp' = "convertNoFile"
    /\ UNCHANGED <<objectUrls, mounted, page>>

NextHandlers ==
    \/ NextUpload
    \/ CallConvertWithoutFile

SpecHandlers == InitUpload /\ [][NextHandlers]_vars

\* ---------------------------------------------------------------- unmount
\* The cleanup the effect returns, run with the previewUrl and
\* stippledImageUrl its closure holds.
cleanup(captured, urls) ==
    LET first == IF captured.previewUrl # NullUrl
                 THEN revokeObjectURL(urls, captured.previewUrl) ELSE urls
    IN  IF captured.stippledImageUrl # NullUrl
        THEN revokeObjectURL(first, captured.stippledImageUrl) ELSE first

\* React unmounts the component and runs the effect's cleanup. The effect has
\* the dependency list [], so it ran once, after the first render, and its
\* closure holds the values of that render: the useState initial values.
Unmount ==
    /\ mounted
    /\ mounted' = FALSE
    /\ objectUrls' = cleanup(InitialForm, objectUrls)
    /\ lastOp' = "unmount"
    /\ UNCHANGED <<form, requests, page>>

NextUnmount ==
    \/ NextUpload
    \/ Unmount

SpecUnmount == InitUpload /\ [][NextUnmount]_vars

\* ----------------------------------------------------------------- claims
Running == state.timerId # NullTimer

EmailIds == [i \in DOMAIN state.emails |-> state.emails[i].id]

\* C1: in every reachable state remainingSeconds (state.timeLeft) is an
\* integer >= 0.
C1_TimeLeftNonNegative == state.timeLeft \in Nat

\* The countdown has run out and the tick that found it at 0 has run.
C1_Witness ==
    state.timeLeft = 0 /\ state.timerId = NullTimer /\ lastOp = "tick"

\* C2: with extend never invoked, remainingSeconds is 600 - k after the k-th
\* tick for every k <= 600, so it is 0 after the 600th tick and not before.
C2_CountdownByTicks ==
    (nExtends = 0 /\ nTicks <= InitialTimeLeft)
        => state.timeLeft = InitialTimeLeft - nTicks

\* The 600th tick has just run in a session that was never extended.
C2_Witness ==
    nExtends = 0 /\ nTicks = InitialTimeLeft /\ state.timeLeft = 0
        /\ lastOp = "tick"

\* C3 as stated: the countdown is STOPPED (timerId = null) in every state
\* where remainingSeconds = 0.
C3_StoppedWheneverZero ==
    state.timeLeft = 0 => state.timerId = NullTimer

\* C3 amended: the countdown is stopped by the first tick that finds
\* remainingSeconds = 0, one tick after the counter reached 0. Every tick runs
\* with the interval live; a tick at remainingSeconds > 0 decrements and keeps
\* the interval, a tick at 0 clears it and leaves the counter at 0; a STOPPED
\* countdown has remainingSeconds = 0, and no tick runs once it is STOPPED.
C3_StoppedByTickAfterZero ==
    /\ [](state.timerId = NullTimer => state.timeLeft = 0)
    /\ [][lastOp' = "tick" =>
            /\ Running
            /\ IF state.timeLeft = 0
               THEN state'.timerId = NullTimer /\ state'.timeLeft = 0
               ELSE state'.timerId = state.timerId
                    /\ state'.timeLeft = state.timeLeft - 1]_vars

\* The counter is 0 with the interval still live: the 600th tick has run, the
\* 601st has not.
C3_Witness ==
    state.timeLeft = 0 /\ Running /\ lastOp = "tick" /\ nTicks = InitialTimeLeft

\* C4: extend at remainingSeconds = n > 0 yields n + 600, leaves the countdown
\* RUNNING and leaves address, messages, selected and modalOpen unchanged.
C4_ExtendAdds600 ==
    [][(lastOp' = "extend" /\ state.timeLeft > 0) =>
            /\ state'.timeLeft = state.timeLeft + 600
            /\ Running /\ state'.timerId = state.timerId
            /\ state'.emailAddress = state.emailAddress
            /\ state'.emails = state.emails
            /\ state'.selectedEmail = state.selectedEmail
            /\ state'.isPremiumModalOpen = state.isPremiumModalOpen]_vars

\* extend has just taken the counter from 250 to 850.
C4_Witness ==
    lastOp = "extend" /\ state.timeLeft = 850 /\ Running /\ nTicks = 350

\* C5: extend at remainingSeconds = 0 is a no-op: the counter stays 0, the
\* countdown state and every other session field are unchanged.
C5_ExtendAtZeroNoOp ==
    [][(lastOp' = "extend" /\ state.timeLeft = 0) => state' = state]_vars

\* extend has run on an expired, STOPPED countdown.
C5_Witness ==
    lastOp = "extend" /\ state.timeLeft = 0 /\ state.timerId = NullTimer

\* C6: expiry is permanent: once remainingSeconds is 0 it stays 0, and a
\* STOPPED countdown is never RUNNING again.
C6_ExpiryPermanent ==
    [][/\ state.timeLeft = 0 => state'.timeLeft = 0
       /\ state.timerId = NullTimer => state'.timerId = NullTimer]_vars

\* After expiry an extend was attempted and the clock moved on without a tick.
C6_Witness ==
    /\ state.timeLeft = 0 /\ state.timerId = NullTimer
    /\ nExtends = 1 /\ lastOp = "advance" /\ now > nTicks + 1

\* C7 as stated: in every step from a RUNNING state the new remainingSeconds
\* is <= the old one.
C7_NonIncreasingWhileRunning ==
    [][Running => state'.timeLeft <= state.timeLeft]_vars

\* C7 amended: in every step from a RUNNING state other than an extend taken
\* at remainingSeconds > 0 the new remainingSeconds is <= the old one; that
\* extend raises it by exactly 600.
C7_NonIncreasingExceptExtend ==
    [][Running =>
            IF lastOp' = "extend" /\ state.timeLeft > 0
            THEN state'.timeLeft = state.timeLeft + ExtendSeconds
            ELSE state'.timeLeft <= state.timeLeft]_vars

\* The countdown ticks on after an extend.
C7_Witness ==
    /\ lastOp = "tick" /\ Running /\ nExtends = 1
    /\ state.timeLeft > InitialTimeLeft

\* C8: exactly two arrivals, at 5 s and at 15 s: no message before 5 s, one
\* from 5 s until the second arrival, two from 15 s on, never more than two,
\* and message 1 arrives before message 2.
C8_TwoArrivals ==
    /\ Len(state.emails) <= 2
    /\ Len(state.emails) + Cardinality(pendingEmails) = 2
    /\ now < 5 => Len(state.emails) = 0
    /\ (now > 5 /\ now < 15) => Len(state.emails) = 1
    /\ now > 15 => Len(state.emails) = 2
    /\ EmailIds \in {<< >>, <<1>>, <<2, 1>>}
    /\ \A i \in DOMAIN state.emails :
          state.emails[i].received = IF state.emails[i].id = 1 THEN 5 ELSE 15

\* The second arrival has just run, 15 s after start.
C8_Witness ==
    lastOp = "arrival" /\ now = 15 /\ Len(state.emails) = 2

\* C9: messages is append-only, newest first by insertion: an arrival puts the
\* new message at index 0, keeps every earlier message unchanged and in order
\* behind it, and leaves remainingSeconds, selected and modalOpen unchanged;
\* no other step changes messages.
C9_MessagesPrependOnly ==
    [][IF lastOp' = "arrival"
       THEN /\ Len(state'.emails) = Len(state.emails) + 1
            /\ Tail(state'.emails) = state.emails
            /\ \A i \in DOMAIN state.emails :
                  Head(state'.emails).id # state.emails[i].id
            /\ state'.timeLeft = state.timeLeft
            /\ state'.selectedEmail = state.selectedEmail
            /\ state'.isPremiumModalOpen = state.isPremiumModalOpen
       ELSE state'.emails = state.emails]_vars

\* The second message has arrived in front of the first, with the modal open.
C9_Witness ==
    lastOp = "arrival" /\ EmailIds = <<2, 1>> /\ state.isPremiumModalOpen

\* C10: whenever selected is set, messages holds a message with the id of
\* selected, also after an arrival has replaced the messages sequence.
C10_SelectionNeverDangles ==
    state.selectedEmail # NoEmail =>
        \E i \in DOMAIN state.emails :
            state.emails[i].id = state.selectedEmail[1].id

\* Message 1 is shown in the detail view while message 2 arrives.
C10_Witness ==
    /\ state.selectedEmail # NoEmail /\ lastOp = "arrival"
    /\ state.selectedEmail[1].id = 1 /\ Len(state.emails) = 2

\* C11: select(id) sets selected to the message with that id when messages
\* holds it and changes nothing else; for an id messages does not hold it
\* changes no session field.
C11_SelectPresentOrNoOp ==
    [][\A id \in 0 .. MaxEmailId :
         lastOp' = SelectOp(id) =>
            IF \E i \in DOMAIN state.emails : state.emails[i].id = id
            THEN /\ Len(state'.selectedEmail) = 1
                 /\ state'.selectedEmail[1].id = id
                 /\ \E i \in DOMAIN state.emails :
                       state.emails[i] = state'.selectedEmail[1]
                 /\ state' = [state EXCEPT !.selectedEmail = state'.selectedEmail]
            ELSE state' = state]_vars

\* Only message 1 has arrived and an item was clicked with id 2.
C11_Witness ==
    lastOp = SelectOp(2) /\ EmailIds = <<1>> /\ state.selectedEmail = NoEmail

\* C12: openModal sets modalOpen, closeModal and a click on the overlay root
\* clear it, a click on the modal content leaves it set; none of them changes
\* remainingSeconds, messages, selected or address.
C12_ModalToggles ==
    [][/\ lastOp' = "openModal" =>
            state' = [state EXCEPT !.isPremiumModalOpen = TRUE]
       /\ lastOp' \in {"closeModal", "overlay"} =>
            state' = [state EXCEPT !.isPremiumModalOpen = FALSE]
       /\ lastOp' = "modalContent" =>
            state.isPremiumModalOpen /\ state' = state]_vars

\* The modal was opened and a click on its content has left it open.
C12_Witness ==
    lastOp = "modalContent" /\ state.isPremiumModalOpen

\* Addresses init() can generate from the draws of the random source.
GeneratedAddresses ==
    {generateRandomEmail(draw[1], draw[2]) : draw \in RandomDraws}

\* C13: the address is generated once, by init, and no later step changes it.
C13_AddressImmutable ==
    /\ [](state.emailAddress \in GeneratedAddresses)
    /\ [][state'.emailAddress = state.emailAddress]_vars

\* Ticks, both arrivals, a selection and an extend have happened.
C13_Witness ==
    /\ state.emailAddress \in GeneratedAddresses
    /\ lastOp = "extend" /\ Len(state.emails) = 2 /\ nTicks > 15
    /\ state.isPremiumModalOpen

\* The token and the domain of a generated address.
TokenOf(address) == SubSeq(address, 1, Len(address) - 2)

DomainOf(address) == address[Len(address)]

WellFormed(address) ==
    /\ Len(address) >= 2
    /\ address[Len(address) - 1] = "@"
    /\ \E i \in DOMAIN domains : DomainOf(address) = domains[i]
    /\ \A i \in DOMAIN TokenOf(address) : TokenOf(address)[i] \in Base36Chars

\* C14 as stated: every generated address is <token>@<domain> with a lowercase
\* alphanumeric token of length 12 and one of the configured domains.
C14_TokenOfLength12 ==
    state.emailAddress # << >> =>
        WellFormed(state.emailAddress) /\ Len(TokenOf(state.emailAddress)) = 12

\* C14 amended: every generated address is <token>@<domain> with one of the
\* configured domains and a lowercase alphanumeric token of at most 10
\* characters: the first 10 base-36 digits of the random fraction, or all of
\* them (possibly none) when the fraction has fewer.
C14_TokenOfAtMost10 ==
    state.emailAddress # << >> =>
        LET token == TokenOf(state.emailAddress)
            digits == IF Len(mathRandom) > 2 THEN Len(mathRandom) - 2 ELSE 0
        IN  /\ WellFormed(state.emailAddress)
            /\ Len(token) = IF digits < 10 THEN digits ELSE 10
            /\ \A i \in DOMAIN token : token[i] = mathRandom[i + 2]

\* An address was generated from a fraction with a single digit.
C14_Witness ==
    /\ lastOp = "generate" /\ Len(mathRandom) = 3
    /\ Len(TokenOf(state.emailAddress)) = 1

\* C15 as stated: once the session's view is torn down, no tick of the
\* interval and no pending arrival runs against the session any more.
C15_NoTimerAfterTeardown ==
    [][~view.root => lastOp' \notin {"tick", "arrival"}]_vars

\* The view the handlers of the page leave behind for a state.
ViewOf(st) == render(st, Unrendered)

\* C16 as stated: between handlers the presented view is the view computed
\* from the current state, and every change of the state is rendered in the
\* step that makes it.
C16_ViewIsRenderOfState ==
    /\ [](view = ViewOf(state))
    /\ [][state' # state => view' = ViewOf(state')]_vars

\* C16 amended: between handlers the presented view is the view computed from
\* the current state except for the label of the copy button, which the copy
\* feedback writes outside render and which reads "Copy" or "Copied!"; every
\* change of the state is rendered, label included, in the step that makes it.
C16_ViewIsRenderExceptCopyLabel ==
    /\ []( /\ [view EXCEPT !.copyLabel = "Copy"] = ViewOf(state)
           /\ view.copyLabel \in {"Copy", "Copied!"} )
    /\ [][state' # state => view' = ViewOf(state')]_vars

\* The copy feedback was shown, and going back to the list of the expired
\* session has rendered the plain label again.
C16_Witness ==
    /\ lastOp = "back" /\ clipboardPending = 0
    /\ restores # << >> /\ ~Head(restores).attached
    /\ view = ViewOf(state) /\ view.html.timer = "Expired"

\* C17: after any number of renders exactly the elements of the current view
\* carry listeners, one per element and event type, and one click on the
\* extend button of a running session runs extendTimer once.
C17_BindingsDoNotAccumulate ==
    /\ []( /\ DOMAIN view.listeners = Elements(state)
           /\ \A h \in DOMAIN view.listeners : view.listeners[h] = 1 )
    /\ [][lastOp' = "extend" /\ state.timeLeft > 0 =>
            /\ nExtends' = nExtends + 1
            /\ state'.timeLeft = state.timeLeft + ExtendSeconds]_vars

\* Dozens of renders later one click has extended the session once.
C17_Witness ==
    /\ lastOp = "extend" /\ nTicks > 20 /\ nExtends = 1
    /\ state.timeLeft = InitialTimeLeft - nTicks + ExtendSeconds
    /\ view.listeners["extend-timer-button"] = 1

\* C18: the items and the extend button are bound exactly while no message is
\* selected, back and forward exactly while one is, the three modal hooks
\* exactly while the modal is open; so no extend happens in the email view
\* and selectedEmail only changes from none to an id or from an id to none.
C18_EnabledByViewState ==
    /\ []( /\ Bound("extend-timer-button") <=> state.selectedEmail = NoEmail
           /\ \A id \in 1 .. MaxEmailId, type \in {"click", "keydown"} :
                 Bound(ItemHook(id, type)) <=>
                    state.selectedEmail = NoEmail /\ id \in EmailItems(state)
           /\ \A h \in {"back-to-inbox", "forward-email"} :
                 Bound(h) <=> state.selectedEmail # NoEmail
           /\ \A h \in {"close-modal-button", "stripe-checkout-button",
                        "modal-overlay"} :
                 Bound(h) <=> state.isPremiumModalOpen )
    /\ [][ /\ lastOp' = "extend" => state.selectedEmail = NoEmail
           /\ state'.selectedEmail # state.selectedEmail =>
                 state.selectedEmail = NoEmail \/ state'.selectedEmail = NoEmail
         ]_vars

\* A message is shown under the open modal, after an extend in the list.
C18_Witness ==
    /\ state.selectedEmail # NoEmail /\ state.isPremiumModalOpen
    /\ nExtends = 1
    /\ Bound("back-to-inbox") /\ Bound("modal-overlay")
    /\ ~Bound("extend-timer-button")

\* C19 as stated: once every pending label restore has fired and no clipboard
\* write is outstanding, the copy button shows "Copy".
C19_CopiedIsTransient ==
    (restores = << >> /\ clipboardPending = 0) => view.copyLabel = "Copy"

\* C20 as stated: a displayed stippled result was made from the file that is
\* selected now.
C20_ResultOfSelectedFile ==
    form.stippledImageUrl # NullUrl =>
        /\ form.selectedFile # NoFile
        /\ objectUrls[form.stippledImageUrl].kind = "stipple"
        /\ objectUrls[form.stippledImageUrl].file = form.selectedFile[1]

\* C21 as stated: once the component is unmounted every object URL created
\* for a preview or a result is revoked.
C21_NoUrlLeftAfterUnmount ==
    ~mounted => \A url \in DOMAIN objectUrls : objectUrls[url].revoked

\* C22: at most one request is in flight, and one is exactly while isLoading;
\* the step that ends a conversion resets isLoading, sets error when the
\* request has failed and leaves error alone when it has succeeded; every
\* conversion that has started ends.
C22_ConversionEnds ==
    /\ []( /\ Cardinality(requests) <= 1
           /\ form.isLoading <=> requests # {} )
    /\ [][ /\ lastOp' = "convert" =>
                form'.isLoading /\ form'.error = NoError
           /\ lastOp' = "converted" =>
                ~form'.isLoading /\ form'.error = form.error
           /\ lastOp' = "convertFailed" =>
                ~form'.isLoading /\ form'.error # NoError ]_vars
    /\ (form.isLoading ~> ~form.isLoading)

\* A request has failed: the message is shown and the button is enabled again.
C22_Witness ==
    /\ lastOp = "convertFailed"
    /\ ~form.isLoading /\ form.error = <<"API request failed">>
    /\ requests = {} /\ form.selectedFile # NoFile

\* C23: picking a file whose type does not start with "image/" shows the
\* message and clears the result but keeps selectedFile and previewUrl, so a
\* file selected before stays selected with its convert button; converting
\* with no file selected shows a message and sends no request.
C23_InvalidInputsRejected ==
    [][ /\ lastOp' = "select notes.txt" =>
             /\ form' = [form EXCEPT
                           !.error = <<"Please select a valid image file">>,
                           !.stippledImageUrl = NullUrl]
             /\ objectUrls' = objectUrls
             /\ requests' = requests
        /\ lastOp' = "convertNoFile" =>
             /\ form' = [form EXCEPT !.error = <<"Please select an image first">>]
             /\ requests' = requests
             /\ objectUrls' = objectUrls ]_vars

\* a.png was converted, then notes.txt was picked: a.png is still selected
\* and previewed, its result is gone and the message is shown.
C23_Witness ==
    /\ lastOp = "select notes.txt"
    /\ form.selectedFile # NoFile /\ form.selectedFile[1].name = "a.png"
    /\ form.previewUrl # NullUrl /\ ~objectUrls[form.previewUrl].revoked
    /\ form.stippledImageUrl = NullUrl
    /\ \E url \in DOMAIN objectUrls : objectUrls[url].kind = "stipple"
    /\ form.error = <<"Please select a valid image file">>
    /\ ~form.isLoading

====
